---- MODULE Spec2Model ----
(***************************************************************************)
(* Model of the ME480FSM library (src/src/ME480FSM.cpp, ME480FSM.h):       *)
(* RisingEdgeCounter, FSMTimer and FSMFastTimer.  Every object is polled   *)
(* through its update function; one action models one whole update call.   *)
(***************************************************************************)
EXTENDS Integers, Sequences, FiniteSets, TLC

VARIABLES counter, cLast, ref, kind, timer, clock, tLast

vars == <<counter, cLast, ref, kind, timer, clock, tLast>>

(***************************************************************************)
(* Bounds of the model.                                                    *)
(***************************************************************************)
MaxPreset == 3
MaxCount == 4
IntBits == 4
ClockBits == 3
MaxDuration == 3
MaxStep == 3

INT_MAX == 2^(IntBits - 1) - 1
INT_MIN == -(2^(IntBits - 1))
ULONG_MOD == 2^ClockBits

Presets == (-1)..MaxPreset
Durations == 0..MaxDuration

(***************************************************************************)
(* RisingEdgeCounter                                                       *)
(***************************************************************************)

\* The constructor: CNT is not assigned, so it holds an indeterminate value.
RisingEdgeCounter(_preset, cnt) ==
    [preset |-> _preset,
     state_Waiting |-> TRUE,
     state_Up |-> FALSE,
     state_Down |-> FALSE,
     state_RST |-> FALSE,
     in_Up_Old |-> FALSE,
     in_Down_Old |-> FALSE,
     count |-> 0,
     CNT |-> cnt]

\* count++ on an int: past INT_MAX the behaviour is undefined.
PlusPlus(n) == IF n < INT_MAX THEN {n + 1} ELSE INT_MIN..INT_MAX

\* Variant: the up input counted by level, not by edge.
upp_Level(c, in_Up) == in_Up
\* Block 1: unique presses on up, down.
upp(c, in_Up) == in_Up /\ ~c.in_Up_Old
\* Variant: the down input counted by level, not by edge.
dnp_Level(c, in_Down) == in_Down
dnp(c, in_Down) == in_Down /\ ~c.in_Down_Old

\* Block 2: state transition logic.
waitToUp(c, in_Up, in_Down, RST) ==
    c.state_Waiting /\ upp(c, in_Up) /\ ~(dnp(c, in_Down) \/ RST)

\* Variant: a down press is taken even when an up press comes with it.
waitToDown_NoCancel(c, in_Up, in_Down, RST) ==
    c.state_Waiting /\ dnp(c, in_Down) /\ ~RST
waitToDown(c, in_Up, in_Down, RST) ==
    c.state_Waiting /\ dnp(c, in_Down) /\ ~(upp(c, in_Up) \/ RST)
waitToRST(c, RST) == c.state_Waiting /\ RST
waitToWait(c, in_Up, in_Down, RST) ==
    c.state_Waiting /\ ~(waitToUp(c, in_Up, in_Down, RST)
                         \/ waitToDown(c, in_Up, in_Down, RST)
                         \/ waitToRST(c, RST))
upToWait(c) == c.state_Up
upToRST(c, RST) == c.state_Up /\ RST
downToWait(c) == c.state_Down
downToRST(c, RST) == c.state_Up /\ RST
RSTToWait(c, RST) == c.state_RST /\ ~RST
RSTToRST(c, RST) == c.state_RST /\ ~RSTToWait(c, RST)

\* Block 3: update states.
NewWaiting(c, in_Up, in_Down, RST) ==
    upToWait(c) \/ downToWait(c) \/ RSTToWait(c, RST)
    \/ waitToWait(c, in_Up, in_Down, RST)
NewUp(c, in_Up, in_Down, RST) == waitToUp(c, in_Up, in_Down, RST)
NewDown(c, in_Up, in_Down, RST) == waitToDown(c, in_Up, in_Down, RST)
NewRST(c, RST) ==
    waitToRST(c, RST) \/ upToRST(c, RST) \/ downToRST(c, RST) \/ RSTToRST(c, RST)

\* Block 4: the three if statements on count, in program order; inc is the
\* value count++ produces.
CountUp(n, sUp, inc) == IF sUp THEN inc ELSE n
\* Variant: decrement without the floor at 0.
CountDown_NoFloor(n, sDown) == IF sDown THEN n - 1 ELSE n
CountDown(n, sDown) == IF sDown THEN (IF n > 0 THEN n - 1 ELSE n) ELSE n
CountRST(n, sRST) == IF sRST THEN 0 ELSE n

NewCount(c, sUp, sDown, sRST, inc) ==
    CountRST(CountDown(CountUp(c.count, sUp, inc), sDown), sRST)

\* Variant: strict comparison with the preset.
NewCNT_Strict(n, preset) == n > preset
NewCNT(n, preset) == n >= preset

\* The whole of RisingEdgeCounter::update.
RisingEdgeCounter_update(c, in_Up, in_Down, RST, inc) ==
    LET sW == NewWaiting(c, in_Up, in_Down, RST)
        sU == NewUp(c, in_Up, in_Down, RST)
        sD == NewDown(c, in_Up, in_Down, RST)
        sR == NewRST(c, RST)
        n  == NewCount(c, sU, sD, sR, inc)
    IN  [preset |-> c.preset,
         state_Waiting |-> sW,
         state_Up |-> sU,
         state_Down |-> sD,
         state_RST |-> sR,
         in_Up_Old |-> in_Up,
         in_Down_Old |-> in_Down,
         count |-> n,
         CNT |-> NewCNT(n, c.preset)]

\* No call has been made yet on the counter.
NoCounterCall(c) ==
    [called |-> FALSE, in_Up |-> FALSE, in_Down |-> FALSE, RST |-> FALSE,
     pre |-> c]

\* One call of update; cLast records the call and the state it started from.
CounterUpdate(in_Up, in_Down, RST) ==
    /\ \E inc \in PlusPlus(counter.count) :
          counter' = RisingEdgeCounter_update(counter, in_Up, in_Down, RST, inc)
    /\ cLast' = [called |-> TRUE, in_Up |-> in_Up, in_Down |-> in_Down,
                 RST |-> RST, pre |-> counter]
    /\ UNCHANGED <<kind, timer, clock, tLast>>

(***************************************************************************)
(* The counter as the specification describes it: one mode tag, the        *)
(* transition rules of its section 4.1, both counting modes going to       *)
(* Resetting on reset.                                                     *)
(***************************************************************************)

EdgeCounter(presetThreshold) ==
    [presetThreshold |-> presetThreshold,
     count |-> 0,
     mode |-> "Waiting",
     previousIncrementInput |-> FALSE,
     previousDecrementInput |-> FALSE,
     thresholdReached |-> (0 >= presetThreshold)]

incPulse(r, incrementInput) == incrementInput /\ ~r.previousIncrementInput
decPulse(r, decrementInput) == decrementInput /\ ~r.previousDecrementInput

EdgeCounter_nextMode(r, incrementInput, decrementInput, resetInput) ==
    IF r.mode = "Waiting"
    THEN IF resetInput THEN "Resetting"
         ELSE IF incPulse(r, incrementInput) /\ ~decPulse(r, decrementInput)
              THEN "CountingUp"
         ELSE IF decPulse(r, decrementInput) /\ ~incPulse(r, incrementInput)
              THEN "CountingDown"
         ELSE "Waiting"
    ELSE IF resetInput THEN "Resetting" ELSE "Waiting"

EdgeCounter_nextCount(n, mode) ==
    IF mode = "CountingUp" THEN n + 1
    ELSE IF mode = "CountingDown" THEN (IF n > 0 THEN n - 1 ELSE 0)
    ELSE IF mode = "Resetting" THEN 0
    ELSE n

EdgeCounter_update(r, incrementInput, decrementInput, resetInput) ==
    LET m == EdgeCounter_nextMode(r, incrementInput, decrementInput, resetInput)
        n == EdgeCounter_nextCount(r.count, m)
    IN  [presetThreshold |-> r.presetThreshold,
         count |-> n,
         mode |-> m,
         previousIncrementInput |-> incrementInput,
         previousDecrementInput |-> decrementInput,
         thresholdReached |-> (n >= r.presetThreshold)]

(***************************************************************************)
(* FSMTimer and FSMFastTimer                                               *)
(***************************************************************************)

Kinds == {"FSMTimer", "FSMFastTimer"}

\* The ticks really passed since a clock reading are counted exactly below
\* TickCap (two full rounds of the clock) and held at TickCap beyond it.
TickCap == 2 * ULONG_MOD
AddTicks(n, d) == IF n + d < TickCap THEN n + d ELSE TickCap

\* Variant: a difference that is not taken modulo the width of the clock.
USub_NoWrap(a, b) == IF a >= b THEN a - b ELSE b - a
\* unsigned long subtraction.
USub(a, b) == (a - b) % ULONG_MOD

\* The constructors; now is the reading of millis() (micros() for the fast
\* timer).  TMR is not assigned, so it holds an indeterminate value.
FSMTimer(_duration, now, tmr) ==
    [duration |-> _duration,
     state_Waiting |-> TRUE,
     state_Timing |-> FALSE,
     startTime |-> now,
     elapsed |-> 0,
     TMR |-> tmr]

FSMFastTimer(_duration, now, tmr) ==
    [duration |-> _duration,
     state_Waiting |-> TRUE,
     state_Timing |-> FALSE,
     startTime |-> now,
     elapsed |-> 0,
     TMR |-> tmr]

\* Block 2 of the timers.
waitToTime(t, enable) == t.state_Waiting /\ enable
timerWaitToWait(t, enable) == t.state_Waiting /\ ~enable
timeToWait(t, enable) == t.state_Timing /\ ~enable
timeToTime(t, enable) == t.state_Timing /\ enable

\* Variants: the start time never taken from the clock, taken on every call,
\* or taken only when the timer was already waiting before the call.
NewStartTime_Keep(t, sWaiting, curTime) == t.startTime
NewStartTime_Always(t, sWaiting, curTime) == curTime
NewStartTime_Pause(t, sWaiting, curTime) ==
    IF sWaiting /\ t.state_Waiting THEN curTime ELSE t.startTime
\* Block 4 of the timers: the start time kept or taken from the clock.
NewStartTime(t, sWaiting, curTime) == IF sWaiting THEN curTime ELSE t.startTime
\* Variant: TMR true only at the very tick the duration is reached.
NewTMR_Equal(elapsed, duration) == elapsed = duration
NewTMR(elapsed, duration) == elapsed >= duration

\* The whole of FSMTimer::update; curTime is the reading of millis().
FSMTimer_update(t, enable, curTime) ==
    LET sW == timeToWait(t, enable) \/ timerWaitToWait(t, enable)
        sT == waitToTime(t, enable) \/ timeToTime(t, enable)
        st == NewStartTime(t, sW, curTime)
        el == USub(curTime, st)
    IN  [duration |-> t.duration,
         state_Waiting |-> sW,
         state_Timing |-> sT,
         startTime |-> st,
         elapsed |-> el,
         TMR |-> NewTMR(el, t.duration)]

\* The whole of FSMFastTimer::update; curTime is the reading of micros().
FSMFastTimer_update(t, enable, curTime) ==
    LET sW == timeToWait(t, enable) \/ timerWaitToWait(t, enable)
        sT == waitToTime(t, enable) \/ timeToTime(t, enable)
        st == NewStartTime(t, sW, curTime)
        el == USub(curTime, st)
    IN  [duration |-> t.duration,
         state_Waiting |-> sW,
         state_Timing |-> sT,
         startTime |-> st,
         elapsed |-> el,
         TMR |-> NewTMR(el, t.duration)]

\* No call has been made yet on the timer built at clock reading now.
NoTimerCall(t, now) ==
    [called |-> FALSE, enable |-> FALSE, pre |-> t,
     allDisabled |-> TRUE, refTime |-> now, enterTime |-> now, ticks |-> 0]

\* What tLast records of a call made at reading curTime: the call, the state
\* it started from, whether every call so far had enable false, the reading
\* of the latest call with enable false (of construction before any), and the
\* reading of the latest call that moved the timer from Waiting to Timing;
\* ticks is the number of ticks really passed since the reading refTime, d
\* of them since the previous call.
TimerCall(enable, curTime, d) ==
    [called |-> TRUE, enable |-> enable, pre |-> timer,
     allDisabled |-> tLast.allDisabled /\ ~enable,
     refTime |-> IF enable THEN tLast.refTime ELSE curTime,
     enterTime |-> IF enable /\ timer.state_Waiting THEN curTime
                   ELSE tLast.enterTime,
     ticks |-> IF enable THEN AddTicks(tLast.ticks, d) ELSE 0]

\* The clock advances by d ticks and FSMTimer::update runs.
TimerUpdate(enable, d) ==
    /\ kind = "FSMTimer"
    /\ clock' = (clock + d) % ULONG_MOD
    /\ timer' = FSMTimer_update(timer, enable, clock')
    /\ tLast' = TimerCall(enable, clock', d)
    /\ UNCHANGED <<kind, counter, cLast, ref>>

\* The clock advances by d ticks and FSMFastTimer::update runs.
FastTimerUpdate(enable, d) ==
    /\ kind = "FSMFastTimer"
    /\ clock' = (clock + d) % ULONG_MOD
    /\ timer' = FSMFastTimer_update(timer, enable, clock')
    /\ tLast' = TimerCall(enable, clock', d)
    /\ UNCHANGED <<kind, counter, cLast, ref>>

(***************************************************************************)
(* Specifications                                                          *)
(***************************************************************************)

\* A counter built with any preset.
InitCounter ==
    /\ \E p \in Presets, cnt \in BOOLEAN : counter = RisingEdgeCounter(p, cnt)
    /\ cLast = NoCounterCall(counter)
    /\ ref = EdgeCounter(counter.preset)

\* A timer of either class built with any duration at any clock reading.
InitTimer ==
    /\ kind \in Kinds
    /\ clock \in 0..(ULONG_MOD - 1)
    /\ \E dur \in Durations, tmr \in BOOLEAN :
          timer = IF kind = "FSMTimer" THEN FSMTimer(dur, clock, tmr)
                  ELSE FSMFastTimer(dur, clock, tmr)
    /\ tLast = NoTimerCall(timer, clock)

\* A timer that is built and never polled.
IdleTimer ==
    /\ kind = "FSMTimer"
    /\ clock = 0
    /\ \E tmr \in BOOLEAN : timer = FSMTimer(0, clock, tmr)
    /\ tLast = NoTimerCall(timer, clock)

\* A counter that is built and never polled.
IdleCounter ==
    /\ \E cnt \in BOOLEAN : counter = RisingEdgeCounter(0, cnt)
    /\ cLast = NoCounterCall(counter)
    /\ ref = EdgeCounter(counter.preset)

Init == InitCounter /\ IdleTimer

\* The code's count and CNT equal the reference machine's (CNT is compared
\* once a call has assigned it).
Agree ==
    /\ counter.count = ref.count
    /\ cLast.called => (counter.CNT <=> ref.thresholdReached)

\* The reference machine is run side by side with the code on the same
\* inputs up to their first disagreement, and is then kept as it is.
RefUpdate(in_Up, in_Down, RST) ==
    ref' = IF Agree THEN EdgeCounter_update(ref, in_Up, in_Down, RST) ELSE ref

Next ==
    \E in_Up \in BOOLEAN, in_Down \in BOOLEAN, RST \in BOOLEAN :
        /\ counter.count < MaxCount
        /\ CounterUpdate(in_Up, in_Down, RST)
        /\ RefUpdate(in_Up, in_Down, RST)

Spec == Init /\ [][Next]_vars

\* The counter polled without a limit on the number of counted edges, built
\* with any preset up to one past the largest int.
IntInit ==
    /\ \E p \in (-1)..(INT_MAX + 1), cnt \in BOOLEAN :
          counter = RisingEdgeCounter(p, cnt)
    /\ cLast = NoCounterCall(counter)
    /\ ref = EdgeCounter(counter.preset)
    /\ IdleTimer

IntNext ==
    \E in_Up \in BOOLEAN, in_Down \in BOOLEAN, RST \in BOOLEAN :
        /\ CounterUpdate(in_Up, in_Down, RST)
        /\ UNCHANGED ref

SpecInt == IntInit /\ [][IntNext]_vars

TimerInit == IdleCounter /\ InitTimer

TimerNext ==
    \E enable \in BOOLEAN, d \in 0..MaxStep :
        \/ TimerUpdate(enable, d)
        \/ FastTimerUpdate(enable, d)

SpecTimer == TimerInit /\ [][TimerNext]_vars

\* The timers in a loop that keeps polling them while the clock keeps
\* advancing: a call that changes nothing (no tick passed, same enable) is a
\* stuttering step, so weak fairness asks for calls that see time pass.
SpecTimerFair == SpecTimer /\ WF_vars(TimerNext)

(***************************************************************************)
(* Properties of RisingEdgeCounter, checked under Spec                     *)
(***************************************************************************)

\* The inputs of the latest update call, relative to the state it started in.
UpEdge == cLast.called /\ cLast.in_Up /\ ~cLast.pre.in_Up_Old
DownEdge == cLast.called /\ cLast.in_Down /\ ~cLast.pre.in_Down_Old

C2_ResetAlwaysZero ==
    (cLast.called /\ cLast.RST) => counter.count = 0

\* C3: exactly one of the four mode flags is true in every state.
C3_ExactlyOneMode ==
    Cardinality({f \in {"state_Waiting", "state_Up", "state_Down", "state_RST"} :
                    counter[f]}) = 1

\* C4: a call with a rising edge on in_Up, in_Down false and RST false
\* increases count by exactly 1.
C4_UpEdgeCounts ==
    (UpEdge /\ ~cLast.in_Down /\ ~cLast.RST)
        => counter.count = cLast.pre.count + 1

\* C5: count grows only on a call that sees in_Up change from false to true;
\* a call with in_Up true whose previous call also had in_Up true never
\* increments count, and the sample kept for the next call is this in_Up.
C5_NoRetrigger ==
    cLast.called =>
        /\ (counter.count > cLast.pre.count => UpEdge)
        /\ ((cLast.in_Up /\ cLast.pre.in_Up_Old)
               => counter.count <= cLast.pre.count)
        /\ counter.in_Up_Old = cLast.in_Up

C5_Witness ==
    /\ cLast.called /\ cLast.in_Up /\ cLast.pre.in_Up_Old
    /\ cLast.pre.state_Up /\ ~cLast.in_Down /\ ~cLast.RST
    /\ counter.count = cLast.pre.count /\ counter.count > 0

\* C6: a call with a rising edge on in_Down, none on in_Up and RST false
\* decreases count by 1 when it is positive and leaves it at 0 otherwise.
C6_DownEdgeCounts ==
    (DownEdge /\ ~UpEdge /\ ~cLast.RST)
        => counter.count = (IF cLast.pre.count > 0 THEN cLast.pre.count - 1
                            ELSE 0)

\* C7: a call with rising edges on both in_Up and in_Down and RST false
\* leaves count unchanged, and both inputs are sampled as true so that
\* neither edge is seen again on the next call.
C7_BothEdgesCancel ==
    (UpEdge /\ DownEdge /\ ~cLast.RST)
        => /\ counter.count = cLast.pre.count
           /\ counter.in_Up_Old /\ counter.in_Down_Old
           /\ ~counter.state_Up /\ ~counter.state_Down

C7_Witness ==
    /\ UpEdge /\ DownEdge /\ ~cLast.RST
    /\ cLast.pre.state_Waiting /\ cLast.pre.count > 0
    /\ counter.count = cLast.pre.count

\* C8: after every update call CNT is true exactly when count >= preset.
C8_CNTReflectsCount ==
    cLast.called => (counter.CNT <=> counter.count >= counter.preset)

C8_Witness ==
    /\ cLast.called /\ counter.preset > 0
    /\ cLast.pre.count = counter.preset - 1 /\ ~cLast.pre.CNT
    /\ counter.count = counter.preset /\ counter.CNT

\* C13: a counter built with preset 0 has CNT true, and a timer built with
\* duration 0 has TMR true, in every state from construction on.
C13_ZeroThresholdTrue ==
    /\ (counter.preset = 0 => counter.CNT)
    /\ (timer.duration = 0 => timer.TMR)

\* C14: a call made in the counting-down mode ends in the resetting mode
\* with count 0 when RST is true, and in the waiting mode when it is false.
C14_DownThenReset ==
    (cLast.called /\ cLast.pre.state_Down)
        => IF cLast.RST THEN counter.state_RST /\ counter.count = 0
           ELSE counter.state_Waiting

\* C15: a call with RST false made in the resetting mode ends in the waiting
\* mode only and leaves count at 0.
C15_LeavingResetNeverCounts ==
    (cLast.called /\ cLast.pre.state_RST /\ ~cLast.RST)
        => /\ counter.state_Waiting
           /\ ~counter.state_Up /\ ~counter.state_Down /\ ~counter.state_RST
           /\ counter.count = 0

\* C16: after every call the code's count and CNT equal those of the
\* specification's single-mode machine run on the same inputs.
C16_RefinesEdgeCounter ==
    cLast.called => Agree

\* C17: a call with no rising edge on in_Up, none on in_Down and RST false
\* leaves count unchanged, and no call changes preset.
C17_NoEdgeNoChange ==
    cLast.called =>
        /\ ((~UpEdge /\ ~DownEdge /\ ~cLast.RST)
               => counter.count = cLast.pre.count)
        /\ counter.preset = cLast.pre.preset

C17_Witness ==
    /\ cLast.called /\ ~UpEdge /\ ~DownEdge /\ ~cLast.RST
    /\ cLast.in_Up /\ cLast.in_Down /\ cLast.pre.state_Waiting
    /\ cLast.pre.count > 0 /\ counter.count = cLast.pre.count

\* C20 (checked under SpecInt): whatever the number of counted up edges,
\* count stays within 0..INT_MAX and CNT is true exactly when
\* count >= preset.
C20_CountBounded ==
    /\ counter.count >= 0 /\ counter.count <= INT_MAX
    /\ cLast.called => (counter.CNT <=> counter.count >= counter.preset)

(***************************************************************************)
(* Properties of FSMTimer and FSMFastTimer, checked under SpecTimer        *)
(***************************************************************************)

\* C9: while every update call so far had enable false, elapsed is 0 and
\* TMR is false after every call.
C9_DisabledStaysFalse ==
    (tLast.called /\ tLast.allDisabled)
        => (timer.elapsed = 0 /\ ~timer.TMR)

\* C9 (amended): while every update call so far had enable false, elapsed
\* is 0 after every call and TMR is true exactly when duration is 0.
C9_DisabledStaysZero ==
    (tLast.called /\ tLast.allDisabled)
        => (timer.elapsed = 0 /\ (timer.TMR <=> timer.duration = 0))

C9_Witness ==
    /\ tLast.called /\ tLast.allDisabled /\ tLast.pre.startTime # clock
    /\ timer.duration > 0 /\ timer.elapsed = 0 /\ ~timer.TMR

\* C10: while the timer is timing, elapsed is the clock reading of the
\* latest call minus the reading of the call that moved the timer from
\* Waiting to Timing (so it is 0 on that entering call).
C10_ElapsedSinceEntering ==
    (tLast.called /\ timer.state_Timing)
        => timer.elapsed = USub(clock, tLast.enterTime)

\* C10 (amended): while the timer is timing, elapsed is the clock reading of
\* the latest call minus the reading of the latest call with enable false
\* (of construction when there was none), in unsigned arithmetic.
C10_ElapsedSinceLastDisabled ==
    (tLast.called /\ timer.state_Timing)
        => timer.elapsed = USub(clock, tLast.refTime)

C10_Witness ==
    /\ tLast.called /\ timer.state_Timing /\ tLast.pre.state_Waiting
    /\ tLast.enterTime = clock /\ timer.elapsed > 0

\* C11: a call with enable false sets elapsed to 0 on that call, and on every
\* later call of the run of enable-true calls that follows, elapsed is at
\* most the number of ticks passed since that disabled call.
C11_DisableRestarts ==
    tLast.called =>
        /\ (~tLast.enable => timer.elapsed = 0)
        /\ ((tLast.enable /\ tLast.ticks < TickCap)
               => timer.elapsed <= tLast.ticks)

C11_Witness ==
    /\ tLast.called /\ tLast.enable /\ ~tLast.allDisabled
    /\ tLast.pre.state_Waiting /\ tLast.pre.elapsed = 0
    /\ tLast.ticks > 0 /\ tLast.ticks < TickCap
    /\ timer.elapsed = tLast.ticks

\* The clock has not wrapped since the reading the elapsed time is taken from.
NoWrapSinceRef == tLast.refTime + tLast.ticks < ULONG_MOD

\* C12: after every call TMR is true exactly when elapsed >= duration, and
\* on consecutive enable-true calls without a wrap of the clock a TMR that
\* was true after the previous call is true after this one.
C12_TMRLatches ==
    tLast.called =>
        /\ (timer.TMR <=> timer.elapsed >= timer.duration)
        /\ ((tLast.enable /\ tLast.pre.state_Timing /\ tLast.pre.TMR
             /\ NoWrapSinceRef) => timer.TMR)
        /\ ((tLast.enable /\ NoWrapSinceRef)
               => timer.elapsed >= tLast.pre.elapsed)

C12_Witness ==
    /\ tLast.called /\ tLast.enable /\ tLast.pre.state_Timing
    /\ tLast.pre.TMR /\ NoWrapSinceRef /\ timer.duration > 0
    /\ timer.elapsed > timer.duration /\ timer.TMR

\* C18: when fewer than 2^w ticks have passed since the start of timing,
\* elapsed is that number of ticks and TMR tells whether it has reached the
\* duration, also when the clock has wrapped in between.
C18_WrapSafeElapsed ==
    (tLast.called /\ tLast.enable /\ tLast.ticks < ULONG_MOD)
        => /\ timer.elapsed = tLast.ticks
           /\ (timer.TMR <=> tLast.ticks >= timer.duration)

C18_Witness ==
    /\ tLast.called /\ tLast.enable /\ tLast.ticks < ULONG_MOD
    /\ clock < timer.startTime /\ timer.duration > 0
    /\ timer.elapsed = tLast.ticks /\ timer.TMR

\* C19 (checked under SpecTimerFair): a call with enable true leaves the
\* timer in the timing mode, and if from some call on every call has enable
\* true then TMR becomes true after that.
C19_EventuallyTMR ==
    /\ []((tLast.called /\ tLast.enable)
            => (timer.state_Timing /\ ~timer.state_Waiting))
    /\ (<>[](tLast.called /\ tLast.enable)) => []<>timer.TMR

C19_Witness ==
    /\ tLast.called /\ tLast.enable /\ tLast.pre.state_Timing
    /\ ~tLast.pre.TMR /\ timer.duration > 0 /\ NoWrapSinceRef
    /\ timer.state_Timing /\ timer.TMR

====
